---- MODULE Spec2Model ----
(***************************************************************************)
(* Thread identifier allocation and caching of the threadid crate:        *)
(*   LiveThreadId   (src/src/live.rs)   reuse allocator + ThreadGuard      *)
(*   UniqueThreadId (src/src/unique.rs) monotonic atomic counter           *)
(*   StdThreadId    (src/src/std.rs)    cached platform id                 *)
(* Threads interleave at every access to state shared between threads     *)
(* (the ALLOCATOR mutex, the data it protects, the NEXT_ID atomic).        *)
(***************************************************************************)
EXTENDS Integers, Sequences, FiniteSets, TLC

(* ---------------------------- bounds ----------------------------------- *)
\* threads of the first scope, which run concurrently
NThreads == 2
\* threads of the second scope, spawned once the first scope is joined
NLate == 1
\* long-lived threads (the main thread and others) that may have obtained
\* their LiveThreadId one after the other at start-up and then only wait
MaxParked == 5
\* width of usize in the model
LiveBits == 3
\* width of the u64 counter in the model
UniqueBits == 2

Scope1 == 1..NThreads
Scope2 == (NThreads + 1)..(NThreads + NLate)
Threads == Scope1 \cup Scope2
ParkedThreads == (NThreads + NLate + 1)..(NThreads + NLate + MaxParked)
AllThreads == Threads \cup ParkedThreads
\* the main thread
Main == NThreads + NLate + 1

USIZE_MAX == 2^LiveBits - 1
U64_MAX == 2^UniqueBits - 1

\* Option::None for the integer-valued options
None == -1

(* ------------------------ integer helpers ------------------------------ *)
\* usize::checked_add / u64::checked_add as a plain wrapping add: the
\* result is reduced modulo the word
WrappingAdd(x, y, max) == (x + y) % (max + 1)

\* usize::checked_add, u64::checked_add
CheckedAdd(x, y, max) == IF x + y > max THEN None ELSE x + y

\* NonMaxUsize::new accepting every value
NonMaxNewAny(x) == x

\* NonMaxUsize::new: None for usize::MAX
NonMaxNew(x) == IF x = USIZE_MAX THEN None ELSE x

\* NonZeroU64::new: None for zero
NonZeroNew(x) == IF x = 0 THEN None ELSE x

\* Cell::get that always reads an empty cell
CellGetEmpty(cell) == None

\* Cell<Option<T>>::get on a thread-local cache slot
CellGet(cell) == cell

\* the value std::thread::current().id() gives for thread t
PlatformId(t) == t

(* ------------- BinaryHeap<Reverse<NonMaxUsize>> (free_list) ------------ *)
\* comparison of the raw values, without the Reverse wrapper
PlainLe(a, b) == a <= b

\* Reverse(a) <= Reverse(b)
ReverseLe(a, b) == b <= a

\* data[pos], with the 0-based positions of the heap code
At(data, pos) == data[pos + 1]
SetAt(data, pos, v) == [data EXCEPT ![pos + 1] = v]

\* BinaryHeap::sift_up with the hole at pos holding elt
RECURSIVE SiftUp(_, _, _, _)
SiftUp(data, elt, start, pos) ==
    IF pos > start
    THEN LET parent == (pos - 1) \div 2 IN
         IF ReverseLe(elt, At(data, parent))
         THEN SetAt(data, pos, elt)
         ELSE SiftUp(SetAt(data, pos, At(data, parent)), elt, start, parent)
    ELSE SetAt(data, pos, elt)

\* the loop of BinaryHeap::sift_down_to_bottom: the hole moves to the
\* greater child until it has fewer than two children; returns the data
\* and the hole's position
RECURSIVE SiftDownLoop(_, _, _)
SiftDownLoop(data, pos, end) ==
    LET child == 2 * pos + 1 IN
    IF end >= 2 /\ child <= end - 2
    THEN LET c == IF ReverseLe(At(data, child), At(data, child + 1))
                  THEN child + 1 ELSE child IN
         SiftDownLoop(SetAt(data, pos, At(data, c)), c, end)
    ELSE IF child = end - 1
         THEN [data |-> SetAt(data, pos, At(data, child)), pos |-> child]
         ELSE [data |-> data, pos |-> pos]

\* BinaryHeap::sift_down_to_bottom(0)
SiftDownToBottom(data) ==
    LET elt == At(data, 0)
        down == SiftDownLoop(data, 0, Len(data)) IN
    SiftUp(down.data, elt, 0, down.pos)

\* BinaryHeap::push that drops the item
HeapPushLost(data, item) == data

\* BinaryHeap::push
HeapPush(data, item) == SiftUp(Append(data, item), item, 0, Len(data))

\* BinaryHeap::pop that leaves the root in the heap (a peek)
HeapPopKeep(data) ==
    IF Len(data) = 0
    THEN [item |-> None, data |-> data]
    ELSE [item |-> At(data, 0), data |-> data]

\* BinaryHeap::pop: the removed root (None when empty) and the rest
HeapPop(data) ==
    IF Len(data) = 0
    THEN [item |-> None, data |-> data]
    ELSE LET last == data[Len(data)]
             rest == SubSeq(data, 1, Len(data) - 1) IN
         IF Len(rest) = 0
         THEN [item |-> last, data |-> rest]
         ELSE [item |-> At(rest, 0),
               data |-> SiftDownToBottom(SetAt(rest, 0, last))]

Range(s) == {s[i] : i \in 1..Len(s)}
Count(s, v) == Cardinality({i \in 1..Len(s) : s[i] = v})
SetMin(S) == CHOOSE x \in S : \A y \in S : x <= y

(* ------------------------------ state ---------------------------------- *)
VARIABLES
    ALLOCATOR,   \* Option<ThreadIdAllocator> inside the static Mutex
    lockHolder,  \* thread holding the ALLOCATOR mutex, 0 when free
    poisoned,    \* poison flag of the std Mutex
    NEXT_ID,     \* the static AtomicU64 of UniqueThreadId::alloc
    LIVE_ID,     \* thread-local Cell<Option<LiveThreadId>>
    guardState,  \* life cycle of the GUARD thread-local key
    GUARD,       \* thread-local OnceCell<ThreadGuard>: the guard's id
    THREAD_ID,   \* thread-local Cell<Option<UniqueThreadId>>
    STD_TID,     \* thread-local Cell<Option<StdThreadId>>
    pc,          \* position of each thread
    new_id,      \* alloc's local new_id / next_id
    prev,        \* fetch_update's local prev
    ret,         \* the call that completed in the last step, if one did
    got,         \* first value each strategy returned to the thread
    released     \* the ids pushed on free_list so far, in order

shared == <<ALLOCATOR, lockHolder, poisoned, NEXT_ID>>
locals == <<LIVE_ID, guardState, GUARD, THREAD_ID, STD_TID>>
vars == <<ALLOCATOR, lockHolder, poisoned, NEXT_ID, LIVE_ID, guardState,
          GUARD, THREAD_ID, STD_TID, pc, new_id, prev, ret, got, released>>

\* a counter that starts at zero
NEXT_ID_ZERO == 1 - 1

\* static NEXT_ID: AtomicU64 = AtomicU64::new(1)
NEXT_ID_START == 1

\* hit tells a value read from the cache slot from one just produced
NoRet == [kind |-> "none", thread |-> 0, strat |-> "none", val |-> None,
          hit |-> FALSE, msg |-> ""]
Ok(t, strat, v, hit) == [kind |-> "ok", thread |-> t, strat |-> strat,
                         val |-> v, hit |-> hit, msg |-> ""]
Panic(t, strat, m) == [kind |-> "panic", thread |-> t, strat |-> strat,
                       val |-> None, hit |-> FALSE, msg |-> m]

NoneGot == [live |-> None, unique |-> None, std |-> None]

\* an allocator whose counter starts at one
initFromOne == [some |-> TRUE, next_id |-> 1, free_list |-> <<>>]

\* ThreadIdAllocator::lazy_init::init
init == [some |-> TRUE, next_id |-> 0, free_list |-> <<>>]

\* Mutex::new(None)
NoAllocator == [some |-> FALSE, next_id |-> 0, free_list |-> <<>>]

\* ThreadIdAllocator::lazy_init (Option::get_or_insert_with)
lazy_init(a) == IF a.some THEN a ELSE init

\* the state after the first k parked threads each made their first call to
\* LiveThreadId::current(), one after the other, the main thread first
InitWith(k) ==
    /\ ALLOCATOR = IF k = 0 THEN NoAllocator
                   ELSE [some |-> TRUE, next_id |-> k, free_list |-> <<>>]
    /\ lockHolder = 0
    /\ poisoned = FALSE
    /\ NEXT_ID = NEXT_ID_START
    /\ LIVE_ID = [t \in AllThreads |->
                    IF t \in ParkedThreads /\ t - Main < k
                    THEN t - Main ELSE None]
    /\ GUARD = LIVE_ID
    /\ guardState = [t \in AllThreads |->
                    IF LIVE_ID[t] # None THEN "Alive" ELSE "Initial"]
    /\ THREAD_ID = [t \in AllThreads |-> None]
    /\ STD_TID = [t \in AllThreads |-> None]
    /\ pc = [t \in AllThreads |->
                IF t \in Scope1 THEN "idle"
                ELSE IF t \in Scope2 THEN "unborn" ELSE "parked"]
    /\ new_id = [t \in AllThreads |-> None]
    /\ prev = [t \in AllThreads |-> None]
    /\ ret = NoRet
    /\ got = [t \in AllThreads |->
                [NoneGot EXCEPT !.live = LIVE_ID[t]]]
    /\ released = <<>>

\* no start-up thread asked for a LiveThreadId, the main thread alone did,
\* or all of them did
Init == \E k \in {0, 1, MaxParked} : InitWith(k)

(* --------------------------- primitives -------------------------------- *)
\* LocalKey::try_with that never reports the key as destroyed
TryWithAlways(state) == TRUE

\* LocalKey::try_with on GUARD: an AccessError once the key's destructor
\* has started
TryWithOk(state) == state # "Destroyed"

\* a lock that never waits
MutexAlwaysFree(holder) == TRUE

\* sync::Mutex::lock can return: nobody holds the mutex (poison is ignored)
MutexFree(holder) == holder = 0

\* LockResult::unwrap: a poisoned mutex makes the caller panic
PoisonUnwrap(isPoisoned) == ~isPoisoned

\* unwrap_or_else(PoisonError::into_inner) in sync::Mutex::lock: the guard
\* is handed out whether or not the mutex is poisoned
PoisonIntoInner(isPoisoned) == TRUE

\* a compare-exchange that stores without comparing
CompareExchangeBlind(current, expected) == TRUE

\* AtomicU64::compare_exchange_weak succeeds
CompareExchange(current, expected) == current = expected

\* a cache slot that forgets the value it is given
CellSetLost(value) == None

\* Cell::set(Some(value)) on a cache slot
CellSet(value) == value

FirstGot(g, strat, v) ==
    CASE strat = "live" -> [g EXCEPT !.live = IF @ = None THEN v ELSE @]
      [] strat = "unique" -> [g EXCEPT !.unique = IF @ = None THEN v ELSE @]
      [] strat = "std" -> [g EXCEPT !.std = IF @ = None THEN v ELSE @]

\* the call returns v to its caller
Return(t, strat, v, hit) ==
    /\ ret' = Ok(t, strat, v, hit)
    /\ got' = [got EXCEPT ![t] = FirstGot(@, strat, v)]

\* the call panics with message m
Unwind(t, strat, m) ==
    /\ ret' = Panic(t, strat, m)
    /\ got' = got

\* the step completes no call
Quiet ==
    /\ ret' = NoRet
    /\ got' = got

(* ------------------------ LiveThreadId::current ------------------------ *)
\* LiveThreadId::current reading its cache slot only when the ALLOCATOR
\* mutex is free
LiveCurrentLocked(t) ==
    /\ pc[t] = "idle"
    /\ MutexFree(lockHolder)
    /\ IF CellGet(LIVE_ID[t]) # None
       THEN /\ Return(t, "live", CellGet(LIVE_ID[t]), TRUE)
            /\ UNCHANGED <<guardState, pc>>
       ELSE IF ~TryWithOk(guardState[t])
       THEN /\ Unwind(t, "live", "thread already destroyed")
            /\ UNCHANGED <<guardState, pc>>
       ELSE /\ guardState' = [guardState EXCEPT ![t] = "Alive"]
            /\ IF GUARD[t] # None
               THEN /\ Unwind(t, "live", "already initialized")
                    /\ UNCHANGED pc
               ELSE /\ pc' = [pc EXCEPT ![t] = "lock"]
                    /\ Quiet
    /\ UNCHANGED <<shared, LIVE_ID, GUARD, THREAD_ID, STD_TID, new_id, prev>>
    /\ UNCHANGED released

\* LiveThreadId::current with alloc going to the lock without its assert on
\* the GUARD cell
LiveCurrentNoAssert(t) ==
    /\ pc[t] = "idle"
    /\ IF CellGet(LIVE_ID[t]) # None
       THEN /\ Return(t, "live", CellGet(LIVE_ID[t]), TRUE)
            /\ UNCHANGED <<guardState, pc>>
       ELSE IF ~TryWithOk(guardState[t])
       THEN /\ Unwind(t, "live", "thread already destroyed")
            /\ UNCHANGED <<guardState, pc>>
       ELSE /\ guardState' = [guardState EXCEPT ![t] = "Alive"]
            /\ pc' = [pc EXCEPT ![t] = "lock"]
            /\ Quiet
    /\ UNCHANGED <<shared, LIVE_ID, GUARD, THREAD_ID, STD_TID, new_id, prev>>
    /\ UNCHANGED released

\* LiveThreadId::current up to the lock: the cache hit, or the GUARD check
\* that opens LiveThreadId::alloc
LiveCurrent(t) ==
    /\ pc[t] = "idle"
    /\ IF CellGet(LIVE_ID[t]) # None
       THEN /\ Return(t, "live", CellGet(LIVE_ID[t]), TRUE)
            /\ UNCHANGED <<guardState, pc>>
       ELSE IF ~TryWithOk(guardState[t])
       THEN /\ Unwind(t, "live", "thread already destroyed")
            /\ UNCHANGED <<guardState, pc>>
       ELSE /\ guardState' = [guardState EXCEPT ![t] = "Alive"]
            /\ IF GUARD[t] # None
               THEN /\ Unwind(t, "live", "already initialized")
                    /\ UNCHANGED pc
               ELSE /\ pc' = [pc EXCEPT ![t] = "lock"]
                    /\ Quiet
    /\ UNCHANGED <<shared, LIVE_ID, GUARD, THREAD_ID, STD_TID, new_id, prev>>
    /\ UNCHANGED released

\* ThreadIdAllocator::lock() in alloc
Lock(t) ==
    /\ pc[t] = "lock"
    /\ MutexFree(lockHolder)
    /\ IF PoisonIntoInner(poisoned)
       THEN /\ lockHolder' = t
            /\ pc' = [pc EXCEPT ![t] = "take"]
            /\ Quiet
       ELSE /\ Unwind(t, "live", "PoisonError")
            /\ pc' = [pc EXCEPT ![t] = "idle"]
            /\ UNCHANGED lockHolder
    /\ UNCHANGED <<ALLOCATOR, poisoned, NEXT_ID, locals, new_id, prev>>
    /\ UNCHANGED released

\* an alloc that never looks at free_list
TakeFresh(t) ==
    /\ pc[t] = "take"
    /\ LET a == lazy_init(ALLOCATOR) IN
       /\ ALLOCATOR' = a
       /\ new_id' = [new_id EXCEPT ![t] = a.next_id]
       /\ pc' = [pc EXCEPT ![t] = "advance"]
    /\ Quiet
    /\ UNCHANGED <<lockHolder, poisoned, NEXT_ID, locals, prev>>
    /\ UNCHANGED released

\* lazy_init, then free_list.pop(); on an empty list, next_id.get()
Take(t) ==
    /\ pc[t] = "take"
    /\ LET a == lazy_init(ALLOCATOR)
           p == HeapPop(a.free_list) IN
       IF p.item # None
       THEN /\ ALLOCATOR' = [a EXCEPT !.free_list = p.data]
            /\ new_id' = [new_id EXCEPT ![t] = p.item]
            /\ pc' = [pc EXCEPT ![t] = "install"]
       ELSE /\ ALLOCATOR' = a
            /\ new_id' = [new_id EXCEPT ![t] = a.next_id]
            /\ pc' = [pc EXCEPT ![t] = "advance"]
    /\ Quiet
    /\ UNCHANGED <<lockHolder, poisoned, NEXT_ID, locals, prev>>
    /\ UNCHANGED released

\* next_id.set(next_id + 1), or the overflow panic whose unwinding drops
\* the MutexGuard
Advance(t) ==
    /\ pc[t] = "advance"
    /\ LET sum == CheckedAdd(new_id[t], 1, USIZE_MAX)
           next == IF sum = None THEN None ELSE NonMaxNew(sum) IN
       IF next = None
       THEN /\ Unwind(t, "live", "LiveThreadId overflowed a usize")
            /\ lockHolder' = 0
            /\ poisoned' = TRUE
            /\ new_id' = [new_id EXCEPT ![t] = None]
            /\ pc' = [pc EXCEPT ![t] = "idle"]
            /\ UNCHANGED ALLOCATOR
       ELSE /\ ALLOCATOR' = [ALLOCATOR EXCEPT !.next_id = next]
            /\ pc' = [pc EXCEPT ![t] = "install"]
            /\ Quiet
            /\ UNCHANGED <<lockHolder, poisoned, new_id>>
    /\ UNCHANGED <<NEXT_ID, locals, prev>>
    /\ UNCHANGED released

\* the hook installed with the allocator's next_id in place of new_id
InstallNextId(t) ==
    /\ pc[t] = "install"
    /\ IF GUARD[t] = None
       THEN /\ GUARD' = [GUARD EXCEPT ![t] = ALLOCATOR.next_id]
            /\ pc' = [pc EXCEPT ![t] = "unlock"]
            /\ UNCHANGED LIVE_ID
       ELSE /\ LIVE_ID' = [LIVE_ID EXCEPT ![t] = None]
            /\ pc' = [pc EXCEPT ![t] = "stuck"]
            /\ UNCHANGED GUARD
    /\ Quiet
    /\ UNCHANGED <<shared, guardState, THREAD_ID, STD_TID, new_id, prev>>
    /\ UNCHANGED released

\* the hook installed with the MutexGuard dropped just before
InstallUnlocked(t) ==
    /\ pc[t] = "install"
    /\ lockHolder' = 0
    /\ IF GUARD[t] = None
       THEN /\ GUARD' = [GUARD EXCEPT ![t] = new_id[t]]
            /\ pc' = [pc EXCEPT ![t] = "unlock"]
            /\ UNCHANGED LIVE_ID
       ELSE /\ LIVE_ID' = [LIVE_ID EXCEPT ![t] = None]
            /\ pc' = [pc EXCEPT ![t] = "stuck"]
            /\ UNCHANGED GUARD
    /\ Quiet
    /\ UNCHANGED <<ALLOCATOR, poisoned, NEXT_ID, guardState, THREAD_ID,
                   STD_TID, new_id, prev>>
    /\ UNCHANGED released

\* GUARD.with(|cell| cell.set(ThreadGuard { id: new_id })); a rejected
\* guard is dropped inside OnceCell::set, and its drop locks the mutex this
\* thread still holds
Install(t) ==
    /\ pc[t] = "install"
    /\ IF GUARD[t] = None
       THEN /\ GUARD' = [GUARD EXCEPT ![t] = new_id[t]]
            /\ pc' = [pc EXCEPT ![t] = "unlock"]
            /\ UNCHANGED LIVE_ID
       ELSE /\ LIVE_ID' = [LIVE_ID EXCEPT ![t] = None]
            /\ pc' = [pc EXCEPT ![t] = "stuck"]
            /\ UNCHANGED GUARD
    /\ Quiet
    /\ UNCHANGED <<shared, guardState, THREAD_ID, STD_TID, new_id, prev>>
    /\ UNCHANGED released

\* alloc returning with its MutexGuard leaked (mem::forget): the mutex stays
\* locked
UnlockLeak(t) ==
    /\ pc[t] = "unlock"
    /\ pc' = [pc EXCEPT ![t] = "store"]
    /\ Quiet
    /\ UNCHANGED <<shared, locals, new_id, prev>>
    /\ UNCHANGED released

\* alloc returns: its MutexGuard goes out of scope
Unlock(t) ==
    /\ pc[t] = "unlock"
    /\ lockHolder' = 0
    /\ pc' = [pc EXCEPT ![t] = "store"]
    /\ Quiet
    /\ UNCHANGED <<ALLOCATOR, poisoned, NEXT_ID, locals, new_id, prev>>
    /\ UNCHANGED released

\* cell.set(Some(new_id)); new_id
Store(t) ==
    /\ pc[t] = "store"
    /\ LIVE_ID' = [LIVE_ID EXCEPT ![t] = CellSet(new_id[t])]
    /\ Return(t, "live", new_id[t], FALSE)
    /\ new_id' = [new_id EXCEPT ![t] = None]
    /\ pc' = [pc EXCEPT ![t] = "idle"]
    /\ UNCHANGED <<shared, guardState, GUARD, THREAD_ID, STD_TID, prev>>
    /\ UNCHANGED released

(* ----------------------- UniqueThreadId::current ----------------------- *)
\* UniqueThreadId::current: the cache hit, or the load that opens
\* fetch_update in UniqueThreadId::alloc
UniqueCurrent(t) ==
    /\ pc[t] = "idle"
    /\ IF CellGet(THREAD_ID[t]) # None
       THEN /\ Return(t, "unique", CellGet(THREAD_ID[t]), TRUE)
            /\ UNCHANGED <<prev, pc>>
       ELSE /\ prev' = [prev EXCEPT ![t] = NEXT_ID]
            /\ pc' = [pc EXCEPT ![t] = "cas"]
            /\ Quiet
    /\ UNCHANGED <<shared, locals, new_id>>
    /\ UNCHANGED released

\* one round of fetch_update's loop: checked_add, then the compare-exchange;
\* on success the old value becomes the id and is cached
UniqueCas(t) ==
    /\ pc[t] = "cas"
    /\ LET next == CheckedAdd(prev[t], 1, U64_MAX) IN
       IF next = None
       THEN /\ Unwind(t, "unique", "id overflow")
            /\ prev' = [prev EXCEPT ![t] = None]
            /\ pc' = [pc EXCEPT ![t] = "idle"]
            /\ UNCHANGED <<NEXT_ID, THREAD_ID>>
       ELSE IF CompareExchange(NEXT_ID, prev[t])
       THEN /\ NEXT_ID' = next
            /\ prev' = [prev EXCEPT ![t] = None]
            /\ pc' = [pc EXCEPT ![t] = "idle"]
            /\ IF NonZeroNew(prev[t]) = None
               THEN /\ Unwind(t, "unique", "unwrap on None")
                    /\ UNCHANGED THREAD_ID
               ELSE /\ THREAD_ID' = [THREAD_ID EXCEPT
                                       ![t] = CellSet(NonZeroNew(prev[t]))]
                    /\ Return(t, "unique", NonZeroNew(prev[t]), FALSE)
       ELSE /\ prev' = [prev EXCEPT ![t] = NEXT_ID]
            /\ Quiet
            /\ UNCHANGED <<NEXT_ID, THREAD_ID, pc>>
    /\ UNCHANGED <<ALLOCATOR, lockHolder, poisoned, LIVE_ID, guardState,
                   GUARD, STD_TID, new_id>>
    /\ UNCHANGED released

(* ------------------------- StdThreadId::current ------------------------ *)
\* StdThreadId::current with STD_TID a plain static shared by all threads
StdCurrentStatic(t) ==
    /\ pc[t] = "idle"
    /\ IF CellGet(STD_TID[Main]) # None
       THEN /\ Return(t, "std", CellGet(STD_TID[Main]), TRUE)
            /\ UNCHANGED STD_TID
       ELSE /\ STD_TID' = [STD_TID EXCEPT ![Main] = CellSet(PlatformId(t))]
            /\ Return(t, "std", PlatformId(t), FALSE)
    /\ UNCHANGED <<shared, LIVE_ID, guardState, GUARD, THREAD_ID, pc, new_id,
                   prev>>
    /\ UNCHANGED released

\* StdThreadId::current: the cache hit, or acquire() and the store
StdCurrent(t) ==
    /\ pc[t] = "idle"
    /\ IF CellGet(STD_TID[t]) # None
       THEN /\ Return(t, "std", CellGet(STD_TID[t]), TRUE)
            /\ UNCHANGED STD_TID
       ELSE /\ STD_TID' = [STD_TID EXCEPT ![t] = CellSet(PlatformId(t))]
            /\ Return(t, "std", PlatformId(t), FALSE)
    /\ UNCHANGED <<shared, LIVE_ID, guardState, GUARD, THREAD_ID, pc, new_id,
                   prev>>
    /\ UNCHANGED released

(* ------------------------- the life of a thread ------------------------ *)
\* a thread of the second scope starts once the first scope is joined
Spawn(t) ==
    /\ pc[t] = "unborn"
    /\ \A u \in Scope1 : pc[u] = "dead"
    /\ pc' = [pc EXCEPT ![t] = "idle"]
    /\ Quiet
    /\ UNCHANGED <<shared, locals, new_id, prev>>
    /\ UNCHANGED released

\* the destructor of GUARD with ThreadGuard::drop clearing the cache slot of
\* UniqueThreadId in place of LIVE_ID
RunDtorWrongSlot(t) ==
    /\ pc[t] = "idle"
    /\ guardState[t] = "Alive"
    /\ guardState' = [guardState EXCEPT ![t] = "Destroyed"]
    /\ IF GUARD[t] # None
       THEN /\ THREAD_ID' = [THREAD_ID EXCEPT ![t] = None]
            /\ pc' = [pc EXCEPT ![t] = "drop_lock"]
       ELSE UNCHANGED <<THREAD_ID, pc>>
    /\ Quiet
    /\ UNCHANGED <<shared, GUARD, LIVE_ID, STD_TID, new_id, prev>>
    /\ UNCHANGED released

\* the destructor of GUARD with a ThreadGuard::drop that leaves LIVE_ID as
\* it is
RunDtorKeepSlot(t) ==
    /\ pc[t] = "idle"
    /\ guardState[t] = "Alive"
    /\ guardState' = [guardState EXCEPT ![t] = "Destroyed"]
    /\ IF GUARD[t] # None
       THEN pc' = [pc EXCEPT ![t] = "drop_lock"]
       ELSE UNCHANGED pc
    /\ Quiet
    /\ UNCHANGED <<shared, GUARD, LIVE_ID, THREAD_ID, STD_TID, new_id, prev>>
    /\ UNCHANGED released

\* the thread ends and the destructor of GUARD runs: the key is marked
\* destroyed, then ThreadGuard::drop starts with
\* LIVE_ID.try_with(|id| id.set(None))
RunDtor(t) ==
    /\ pc[t] = "idle"
    /\ guardState[t] = "Alive"
    /\ guardState' = [guardState EXCEPT ![t] = "Destroyed"]
    /\ IF GUARD[t] # None
       THEN /\ LIVE_ID' = [LIVE_ID EXCEPT ![t] = None]
            /\ pc' = [pc EXCEPT ![t] = "drop_lock"]
       ELSE UNCHANGED <<LIVE_ID, pc>>
    /\ Quiet
    /\ UNCHANGED <<shared, GUARD, THREAD_ID, STD_TID, new_id, prev>>
    /\ UNCHANGED released

\* ThreadGuard::drop going on to the push without taking the ALLOCATOR mutex
DropLockOther(t) ==
    /\ pc[t] = "drop_lock"
    /\ pc' = [pc EXCEPT ![t] = "drop_push"]
    /\ Quiet
    /\ UNCHANGED <<shared, locals, new_id, prev>>
    /\ UNCHANGED released

\* ThreadIdAllocator::lock() in ThreadGuard::drop; a panic in the
\* destructor of a thread-local aborts the process
DropLock(t) ==
    /\ pc[t] = "drop_lock"
    /\ MutexFree(lockHolder)
    /\ IF PoisonIntoInner(poisoned)
       THEN /\ lockHolder' = t
            /\ pc' = [pc EXCEPT ![t] = "drop_push"]
       ELSE /\ pc' = [pc EXCEPT ![t] = "stuck"]
            /\ UNCHANGED lockHolder
    /\ Quiet
    /\ UNCHANGED <<ALLOCATOR, poisoned, NEXT_ID, locals, new_id, prev>>
    /\ UNCHANGED released

\* a drop that pushes the id twice
DropPushTwice(t) ==
    /\ pc[t] = "drop_push"
    /\ LET a == lazy_init(ALLOCATOR) IN
       ALLOCATOR' = [a EXCEPT !.free_list =
                        HeapPush(HeapPush(@, GUARD[t]), GUARD[t])]
    /\ released' = Append(released, GUARD[t])
    /\ pc' = [pc EXCEPT ![t] = "drop_unlock"]
    /\ Quiet
    /\ UNCHANGED <<lockHolder, poisoned, NEXT_ID, locals, new_id, prev>>

\* lazy_init, then free_list.push(Reverse(self.id.index))
DropPush(t) ==
    /\ pc[t] = "drop_push"
    /\ LET a == lazy_init(ALLOCATOR) IN
       ALLOCATOR' = [a EXCEPT !.free_list = HeapPush(@, GUARD[t])]
    /\ released' = Append(released, GUARD[t])
    /\ pc' = [pc EXCEPT ![t] = "drop_unlock"]
    /\ Quiet
    /\ UNCHANGED <<lockHolder, poisoned, NEXT_ID, locals, new_id, prev>>

\* ThreadGuard::drop returns: the MutexGuard goes out of scope and the
\* guard is gone; later destructors of the thread may still run
DropUnlock(t) ==
    /\ pc[t] = "drop_unlock"
    /\ lockHolder' = 0
    /\ GUARD' = [GUARD EXCEPT ![t] = None]
    /\ pc' = [pc EXCEPT ![t] = "idle"]
    /\ Quiet
    /\ UNCHANGED <<ALLOCATOR, poisoned, NEXT_ID, LIVE_ID, guardState,
                   THREAD_ID, STD_TID, new_id, prev>>
    /\ UNCHANGED released

\* a thread that is gone without its thread-local destructors being run
DieWithoutDtor(t) ==
    /\ pc[t] = "idle"
    /\ pc' = [pc EXCEPT ![t] = "dead"]
    /\ Quiet
    /\ UNCHANGED <<shared, locals, new_id, prev>>
    /\ UNCHANGED released

\* no destructor is left to run: the thread is gone and can be joined
Die(t) ==
    /\ pc[t] = "idle"
    /\ guardState[t] # "Alive"
    /\ pc' = [pc EXCEPT ![t] = "dead"]
    /\ Quiet
    /\ UNCHANGED <<shared, locals, new_id, prev>>
    /\ UNCHANGED released

Next ==
    \/ \E t \in Threads : LiveCurrent(t)
    \/ \E t \in Threads : Lock(t)
    \/ \E t \in Threads : Take(t)
    \/ \E t \in Threads : Advance(t)
    \/ \E t \in Threads : Install(t)
    \/ \E t \in Threads : Unlock(t)
    \/ \E t \in Threads : Store(t)
    \/ \E t \in Threads : UniqueCurrent(t)
    \/ \E t \in Threads : UniqueCas(t)
    \/ \E t \in Threads : StdCurrent(t)
    \/ \E t \in Threads : Spawn(t)
    \/ \E t \in Threads : RunDtor(t)
    \/ \E t \in Threads : DropLock(t)
    \/ \E t \in Threads : DropPush(t)
    \/ \E t \in Threads : DropUnlock(t)
    \/ \E t \in Threads : Die(t)

Spec == Init /\ [][Next]_vars

\* alloc entered on a thread of the first scope whose GUARD cell already
\* holds a guard while its cache slot is empty: the case the assert that
\* opens alloc is written for. The first k parked threads hold the ids
\* 0..k-1 and the guard carries the next id.
InitHooked(k) ==
    /\ ALLOCATOR = [some |-> TRUE, next_id |-> k + 1, free_list |-> <<>>]
    /\ lockHolder = 0
    /\ poisoned = FALSE
    /\ NEXT_ID = NEXT_ID_START
    /\ LIVE_ID = [t \in AllThreads |->
                    IF t \in ParkedThreads /\ t - Main < k
                    THEN t - Main ELSE None]
    /\ GUARD = [LIVE_ID EXCEPT ![1] = k]
    /\ guardState = [t \in AllThreads |->
                    IF GUARD[t] # None THEN "Alive" ELSE "Initial"]
    /\ THREAD_ID = [t \in AllThreads |-> None]
    /\ STD_TID = [t \in AllThreads |-> None]
    /\ pc = [t \in AllThreads |->
                IF t \in Scope1 THEN "idle"
                ELSE IF t \in Scope2 THEN "unborn" ELSE "parked"]
    /\ new_id = [t \in AllThreads |-> None]
    /\ prev = [t \in AllThreads |-> None]
    /\ ret = NoRet
    /\ got = [t \in AllThreads |->
                [NoneGot EXCEPT !.live = LIVE_ID[t]]]
    /\ released = <<>>

\* the runs of Spec, and the runs that start with a guard already in the
\* GUARD cell of a thread
AllocSpec == (Init \/ \E k \in {0, 1} : InitHooked(k)) /\ [][Next]_vars

\* the scheduler lets every thread that can take a step take it; a thread
\* waiting for the mutex obtains it if the mutex is free again and again
Fairness ==
    \A t \in Threads :
        /\ SF_vars(Lock(t))
        /\ SF_vars(DropLock(t))
        /\ WF_vars(Take(t))
        /\ WF_vars(Advance(t))
        /\ WF_vars(Install(t))
        /\ WF_vars(Unlock(t))
        /\ WF_vars(Store(t))
        /\ WF_vars(DropPush(t))
        /\ WF_vars(DropUnlock(t))

FairSpec == Spec /\ Fairness

(* ------------------------- vocabulary of the claims -------------------- *)
next_id == ALLOCATOR.next_id
free_list == ALLOCATOR.free_list

InAlloc == {"lock", "take", "advance", "install", "unlock", "store"}
InDrop == {"drop_lock", "drop_push", "drop_unlock"}

\* the id thread t has taken from the allocator and not pushed back yet
Holds(t) ==
    IF pc[t] \in {"install", "unlock", "store"} THEN new_id[t]
    ELSE IF pc[t] = "drop_unlock" THEN None
    ELSE IF GUARD[t] # None THEN GUARD[t]
    ELSE LIVE_ID[t]

Alive(t) == pc[t] \notin {"unborn", "dead"}

\* the step completes a call of thread t to strategy strat
Completes(t, strat) == ret'.thread = t /\ ret'.strat = strat

(* ------------------------------- C1 ------------------------------------ *)
\* C1: two distinct threads that are alive at the same time and each hold a
\* live id (in the cache slot, or just returned by current()) hold
\* different ids.
C1_LiveUniqueness ==
    /\ \A t1, t2 \in AllThreads :
         (t1 # t2 /\ Alive(t1) /\ Alive(t2)
            /\ LIVE_ID[t1] # None /\ LIVE_ID[t2] # None)
         => LIVE_ID[t1] # LIVE_ID[t2]
    /\ (ret.kind = "ok" /\ ret.strat = "live")
         => \A u \in AllThreads \ {ret.thread} :
              Alive(u) => LIVE_ID[u] # ret.val

\* two threads of the first scope hold live ids at once, the second of them
\* having just got its id from a first call that ran while the other was
\* alive
C1_Witness ==
    \E t1, t2 \in Scope1 :
        /\ t1 # t2
        /\ LIVE_ID[t1] # None /\ LIVE_ID[t2] # None
        /\ ret = Ok(t2, "live", LIVE_ID[t2], FALSE)

(* ------------------------------- C2 ------------------------------------ *)
\* C2: no two distinct threads, dead or alive, ever receive the same
\* UniqueThreadId from current().
C2_MonotonicUniqueness ==
    /\ \A t1, t2 \in AllThreads :
         (t1 # t2 /\ got[t1].unique # None /\ got[t2].unique # None)
         => got[t1].unique # got[t2].unique
    /\ (ret.kind = "ok" /\ ret.strat = "unique")
         => \A u \in AllThreads \ {ret.thread} : got[u].unique # ret.val

\* a thread of the second scope receives its id after a thread of the first
\* scope that holds one has terminated
C2_Witness ==
    \E t1 \in Scope1, t2 \in Scope2 :
        /\ pc[t1] = "dead"
        /\ got[t1].unique # None
        /\ ret = Ok(t2, "unique", got[t2].unique, FALSE)

(* ------------------------------- C3 ------------------------------------ *)
\* C3: every id below next_id is held by exactly one live thread or is
\* exactly once in free_list, never both; no id from next_id on is held or
\* in free_list.
C3_Partition ==
    \A id \in 0..USIZE_MAX :
        LET holders == {t \in AllThreads : Alive(t) /\ Holds(t) = id}
            free == Count(free_list, id) IN
        IF id < next_id
        THEN Cardinality(holders) + free = 1
        ELSE holders = {} /\ free = 0

\* ids on both sides of the partition: one in free_list, one held by a
\* running thread, one held by the main thread
C3_Witness ==
    /\ Len(free_list) > 0
    /\ LIVE_ID[Main] # None
    /\ \E t \in Threads : LIVE_ID[t] # None

(* ------------------------------- C4 ------------------------------------ *)
\* the multiset fl with one copy of v removed is rest
RemovedOne(fl, v, rest) ==
    \A x \in 0..USIZE_MAX :
        Count(rest, x) = Count(fl, x) - (IF x = v THEN 1 ELSE 0)

\* C4: when free_list is not empty, the first call to
\* LiveThreadId::current() removes the minimum of free_list, leaves next_id
\* unchanged and returns that minimum, in whatever order the ids were
\* released.
C4_Minimality ==
    [][\A t \in Threads :
         /\ (pc[t] = "take" /\ pc'[t] # "take" /\ Len(free_list) > 0)
              => /\ pc'[t] = "install"
                 /\ new_id'[t] = SetMin(Range(free_list))
                 /\ RemovedOne(free_list, new_id'[t], free_list')
                 /\ next_id' = next_id
         /\ (pc[t] \in {"install", "unlock"} /\ pc'[t] # pc[t])
              => new_id'[t] = new_id[t] /\ next_id' = next_id
         /\ (pc[t] = "store" /\ pc'[t] # "store")
              => ret' = Ok(t, "live", new_id[t], FALSE)
      ]_vars

\* the larger id was released first and the smaller one last; the
\* allocation that follows took the smaller one and left the larger
C4_Witness ==
    \E t \in Threads :
        /\ pc[t] = "install"
        /\ Len(released) >= 2
        /\ released[Len(released) - 1] > released[Len(released)]
        /\ new_id[t] = released[Len(released)]
        /\ released[Len(released) - 1] \in Range(free_list)

(* ------------------------------- C5 ------------------------------------ *)
Min2(a, b) == IF a <= b THEN a ELSE b

\* the main thread holds a live id; t1 and t2 held different live ids, have
\* terminated and are joined; no thread other than t3 has asked for a live
\* id
C5_Scenario(t1, t2, t3) ==
    /\ t1 # t2 /\ t1 # t3 /\ t2 # t3
    /\ LIVE_ID[Main] # None
    /\ pc[t1] = "dead" /\ pc[t2] = "dead"
    /\ got[t1].live # None /\ got[t2].live # None
    /\ got[t1].live # got[t2].live
    /\ \A u \in Threads \ {t1, t2, t3} :
         got[u].live = None /\ pc[u] \notin InAlloc \cup InDrop

\* C5: with the main thread holding a live id, once T1 and T2, which held
\* live ids at the same time, are dead and joined, the id a third thread T3
\* gets from LiveThreadId::current() is the smaller of T1's and T2's ids,
\* and next_id does not grow.
C5_ReuseAfterDeath ==
    [][\A t1, t2, t3 \in Threads :
         C5_Scenario(t1, t2, t3)
         => /\ next_id' = next_id
            /\ (Completes(t3, "live") /\ got[t3].live = None)
                 => ret' = Ok(t3, "live",
                              Min2(got[t1].live, got[t2].live), FALSE)
      ]_vars

\* T3 has just received the smaller of the two ids
C5_Witness ==
    \E t1, t2, t3 \in Threads :
        /\ C5_Scenario(t1, t2, t3)
        /\ ret = Ok(t3, "live", Min2(got[t1].live, got[t2].live), FALSE)
        /\ LIVE_ID[t3] = ret.val

(* ------------------------------- C6 ------------------------------------ *)
GotOf(g, t, strat) ==
    CASE strat = "live" -> g[t].live
      [] strat = "unique" -> g[t].unique
      [] strat = "std" -> g[t].std

\* C6: every value a call to current() returns to a thread equals the first
\* value that strategy returned to the thread; a populated cache slot keeps
\* its value, the live one until the release hook clears it.
C6_CachingIdempotence ==
    [][/\ ret'.kind = "ok" => ret'.val = GotOf(got', ret'.thread, ret'.strat)
       /\ \A t \in Threads :
            /\ THREAD_ID[t] # None => THREAD_ID'[t] = THREAD_ID[t]
            /\ STD_TID[t] # None => STD_TID'[t] = STD_TID[t]
            /\ LIVE_ID[t] # None
                 => \/ LIVE_ID'[t] = LIVE_ID[t]
                    \/ /\ LIVE_ID'[t] = None
                       /\ guardState[t] = "Alive"
                       /\ guardState'[t] = "Destroyed"
      ]_vars

\* a thread reads its monotonic id from the cache after another thread has
\* minted a later one, and it already holds a live and a platform id
C6_Witness ==
    /\ ret.kind = "ok" /\ ret.strat = "unique" /\ ret.hit
    /\ NEXT_ID > ret.val + 1
    /\ got[ret.thread].live # None
    /\ got[ret.thread].std # None

(* ------------------------------- C7 ------------------------------------ *)
\* C7: a call to current() on a thread whose cache slot for the strategy is
\* populated returns the cached value in one step, never reaches the lock
\* or the atomic, and leaves next_id, free_list, the mutex, the monotonic
\* counter and the thread's release hook unchanged.
C7_CachedCallFrame ==
    [][\A t \in Threads :
         /\ (pc[t] = "idle" /\ LIVE_ID[t] # None
               /\ (Completes(t, "live") \/ pc'[t] \in InAlloc))
              => /\ ret' = Ok(t, "live", LIVE_ID[t], TRUE)
                 /\ pc'[t] = "idle"
                 /\ UNCHANGED <<ALLOCATOR, lockHolder, poisoned, NEXT_ID,
                                GUARD, guardState, LIVE_ID>>
         /\ (pc[t] = "idle" /\ THREAD_ID[t] # None
               /\ (Completes(t, "unique") \/ pc'[t] = "cas"))
              => /\ ret' = Ok(t, "unique", THREAD_ID[t], TRUE)
                 /\ pc'[t] = "idle"
                 /\ UNCHANGED <<ALLOCATOR, lockHolder, poisoned, NEXT_ID,
                                GUARD, guardState, THREAD_ID>>
      ]_vars

\* a cached live call completes while another thread holds the lock
C7_Witness ==
    /\ ret.kind = "ok" /\ ret.strat = "live" /\ ret.hit
    /\ lockHolder # 0
    /\ lockHolder # ret.thread

(* ------------------------------- C8 ------------------------------------ *)
\* C8: the monotonic counter never decreases or leaves the word; a first
\* call to UniqueThreadId::current() that completes while the counter is at
\* its maximum panics, leaves the counter unchanged and stores nothing in
\* the caller's cache slot; every id minted was received by no thread
\* before.
C8_MonotonicExhaustion ==
    [][/\ NEXT_ID' >= NEXT_ID
       /\ NEXT_ID' <= U64_MAX
       /\ \A t \in Threads :
            /\ (Completes(t, "unique") /\ ~ret'.hit /\ NEXT_ID = U64_MAX)
                 => /\ ret' = Panic(t, "unique", "id overflow")
                    /\ NEXT_ID' = NEXT_ID
                    /\ THREAD_ID'[t] = None
                    /\ got'[t].unique = None
            /\ (Completes(t, "unique") /\ ~ret'.hit /\ ret'.kind = "ok")
                 => /\ ret'.val = NEXT_ID
                    /\ NEXT_ID' = NEXT_ID + 1
                    /\ \A u \in AllThreads : got[u].unique # ret'.val
      ]_vars

\* a first call has just failed on the exhausted counter, after every id
\* below the maximum was handed out
C8_Witness ==
    /\ ret.kind = "panic" /\ ret.strat = "unique" /\ ret.msg = "id overflow"
    /\ NEXT_ID = U64_MAX
    /\ THREAD_ID[ret.thread] = None
    /\ \A v \in 1..(U64_MAX - 1) : \E u \in Threads : got[u].unique = v

(* ------------------------------- C9 ------------------------------------ *)
\* C9: next_id never decreases and stays below the sentinel usize::MAX; the
\* sentinel is never a live id and never in free_list; an id that alloc
\* returns is held by no other live thread.
C9_ReuseExhaustion ==
    [][/\ next_id' >= next_id
       /\ next_id' < USIZE_MAX
       /\ USIZE_MAX \notin Range(free_list')
       /\ \A t \in AllThreads :
            LIVE_ID'[t] # USIZE_MAX /\ GUARD'[t] # USIZE_MAX
       /\ (ret'.kind = "ok" /\ ret'.strat = "live")
            => /\ ret'.val \in 0..(USIZE_MAX - 1)
               /\ \A u \in AllThreads \ {ret'.thread} :
                    Alive(u) => Holds(u) # ret'.val
       /\ \A t \in Threads :
            (pc[t] = "advance" /\ pc'[t] # "advance"
               /\ new_id[t] + 1 >= USIZE_MAX)
            => /\ ret' = Panic(t, "live", "LiveThreadId overflowed a usize")
               /\ UNCHANGED ALLOCATOR
      ]_vars

\* an allocation has just failed on the exhausted index space while every
\* id below next_id is held
C9_Witness ==
    /\ ret.kind = "panic" /\ ret.strat = "live"
    /\ ret.msg = "LiveThreadId overflowed a usize"
    /\ Len(free_list) = 0
    /\ \E t \in Threads : LIVE_ID[t] = next_id - 1

(* ------------------------------- C10 ----------------------------------- *)
\* C10: on a thread whose release hook has run or is running, the cache
\* slot is empty and a call to LiveThreadId::current() panics without
\* returning a value, without taking the lock and without changing the
\* allocator, the cache slot or the hook.
C10_PostTeardownFatal ==
    [][\A t \in Threads :
         guardState[t] = "Destroyed"
         => /\ LIVE_ID[t] = None
            /\ pc'[t] \notin InAlloc
            /\ Completes(t, "live")
                 => /\ ret' = Panic(t, "live", "thread already destroyed")
                    /\ UNCHANGED <<ALLOCATOR, lockHolder, LIVE_ID, GUARD,
                                   guardState, pc>>
      ]_vars

\* a thread that held a live id asks again after its hook returned the id
C10_Witness ==
    /\ ret.kind = "panic" /\ ret.strat = "live"
    /\ ret.msg = "thread already destroyed"
    /\ got[ret.thread].live # None
    /\ got[ret.thread].live \in Range(free_list)

(* ------------------------------- C11 ----------------------------------- *)
\* the ids held by the live threads other than t
HeldByOthers(t) ==
    {Holds(u) : u \in {v \in AllThreads \ {t} : Alive(v)}} \ {None}

\* the smallest non-negative integer outside S
Smallest(S) == SetMin((0..USIZE_MAX) \ S)

\* the threads that have taken a live id so far, and the ids they took
Takers ==
    {t \in AllThreads :
        got[t].live # None \/ pc[t] \in {"install", "unlock", "store"}}
Taken ==
    {IF got[t].live # None THEN got[t].live ELSE new_id[t] : t \in Takers}

\* C11: the id alloc takes under the lock, from free_list or from next_id,
\* is the smallest non-negative integer no other live thread holds; the
\* first id taken in the process is 0, and as long as no thread has
\* released an id the k ids taken are exactly 0..k-1.
C11_DenseIndices ==
    [][/\ \A t \in Threads :
            (pc[t] \in {"take", "advance"} /\ pc'[t] = "install")
            => /\ new_id'[t] = Smallest(HeldByOthers(t))
               /\ Takers = {} => new_id'[t] = 0
       /\ released' = <<>>
            => /\ Taken' = 0..(Cardinality(Takers') - 1)
               /\ \A t1, t2 \in Takers' :
                    t1 # t2 => Holds(t1)' # Holds(t2)'
      ]_vars

\* a thread has just taken a freed id that lies strictly between an id
\* another thread holds and an id that stays in free_list
C11_Witness ==
    \E t \in Threads :
        /\ pc[t] = "install"
        /\ new_id[t] \in Range(released)
        /\ \E u \in AllThreads \ {t} : Holds(u) # None /\ Holds(u) < new_id[t]
        /\ \E f \in Range(free_list) : f > new_id[t]

(* ------------------------------- C12 ----------------------------------- *)
\* the state of the reuse allocator and of its per-thread slots and hooks
LiveState == <<ALLOCATOR, lockHolder, poisoned, LIVE_ID, GUARD, guardState,
               new_id, released>>

\* the state of the monotonic counter and of its per-thread slots
UniqueState == <<NEXT_ID, THREAD_ID, prev>>

\* the step belongs to LiveThreadId::current or to ThreadGuard::drop
LiveStep ==
    \/ ret'.strat = "live"
    \/ \E t \in Threads :
         /\ pc'[t] # pc[t]
         /\ pc[t] \in InAlloc \cup InDrop \/ pc'[t] \in InAlloc \cup InDrop
    \/ guardState' # guardState

\* the step belongs to UniqueThreadId::current
UniqueStep ==
    \/ ret'.strat = "unique"
    \/ \E t \in Threads : pc'[t] # pc[t] /\ (pc[t] = "cas" \/ pc'[t] = "cas")
    \/ prev' # prev

\* C12: a step of the reuse allocator (allocation, release, reuse, the
\* overflow panic) leaves the monotonic counter and every monotonic and
\* platform cache slot unchanged; a step of the monotonic allocator (the
\* overflow panic included) leaves next_id, free_list, the mutex and every
\* live cache slot and hook unchanged; the n-th monotonic id minted is n
\* whatever the reuse allocator has done.
C12_CrossStrategyIndependence ==
    [][/\ LiveStep => UNCHANGED <<UniqueState, STD_TID>>
       /\ UniqueStep => UNCHANGED <<LiveState, STD_TID>>
       /\ ret'.strat = "std" => UNCHANGED <<LiveState, UniqueState>>
       /\ (ret'.kind = "ok" /\ ret'.strat = "unique" /\ ~ret'.hit)
            => ret'.val =
                 Cardinality({u \in AllThreads : got[u].unique # None}) + 1
      ]_vars

\* the first monotonic id is minted after the reuse allocator was exhausted
\* and an id was released, by a thread that holds a live id
C12_Witness ==
    /\ ret.kind = "ok" /\ ret.strat = "unique" /\ ~ret.hit /\ ret.val = 1
    /\ poisoned
    /\ Len(released) > 0
    /\ LIVE_ID[ret.thread] # None

(* ------------------------------- C13 ----------------------------------- *)
\* the multiset fl with one copy of v added is more
AddedOne(fl, v, more) ==
    \A x \in 0..USIZE_MAX :
        Count(more, x) = Count(fl, x) + (IF x = v THEN 1 ELSE 0)

\* C13: the overflow panic of alloc happens with the lock held and leaves
\* the lock free and next_id and free_list unchanged; once a call has
\* failed that way, the mutex is only ever held by a thread inside alloc or
\* ThreadGuard::drop, every lock attempt on the free mutex can proceed and
\* obtains the guard, a release hook still pushes its id, and a first call
\* that finds free_list non-empty takes an id from it and returns it.
C13_RecoveryUnderLock ==
    [][/\ \A t \in Threads :
            ret' = Panic(t, "live", "LiveThreadId overflowed a usize")
            => /\ lockHolder = t
               /\ lockHolder' = 0
               /\ pc'[t] = "idle"
               /\ UNCHANGED ALLOCATOR
       /\ poisoned
            => \A t \in Threads :
                 /\ (pc[t] \in {"lock", "drop_lock"} /\ lockHolder = 0)
                      => ENABLED (Lock(t) \/ DropLock(t))
                 /\ (pc[t] = "lock" /\ pc'[t] # pc[t])
                      => pc'[t] = "take" /\ lockHolder' = t
                 /\ (pc[t] = "drop_lock" /\ pc'[t] # pc[t])
                      => pc'[t] = "drop_push" /\ lockHolder' = t
                 /\ (pc[t] = "drop_push" /\ pc'[t] # pc[t])
                      => AddedOne(free_list, GUARD[t], free_list')
                 /\ (pc[t] = "take" /\ pc'[t] # pc[t] /\ Len(free_list) > 0)
                      => /\ pc'[t] = "install"
                         /\ new_id'[t] \in Range(free_list)
                 /\ (pc[t] \in {"install", "unlock"} /\ pc'[t] # pc[t])
                      => pc'[t] \in {"unlock", "store"}
                 /\ (pc[t] = "store" /\ pc'[t] # pc[t])
                      => ret' = Ok(t, "live", new_id[t], FALSE)
                 /\ lockHolder' = t
                      => pc'[t] \in {"take", "advance", "install", "unlock",
                                     "drop_push", "drop_unlock"}
      ]_vars

\* after a call failed on the exhausted index space, a thread of the
\* second scope has got an id that a release hook returned
C13_Witness ==
    /\ poisoned
    /\ ret.kind = "ok" /\ ret.strat = "live" /\ ~ret.hit
    /\ ret.thread \in Scope2
    /\ ret.val \in Range(released)
    /\ \E u \in Scope1 : got[u].live = None

(* ------------------------------- C14 ----------------------------------- *)
\* C14: every call to StdThreadId::current() returns the platform's id of
\* the calling thread; the platform is asked exactly when the thread's slot
\* is empty, which is on the thread's first call only, and the result is
\* stored in that thread's slot; the call touches no state shared between
\* threads and no slot of another thread.
C14_PlatformWrapper ==
    [][\A t \in Threads :
         Completes(t, "std")
         => /\ ret'.kind = "ok"
            /\ ret'.val = PlatformId(t)
            /\ ret'.hit <=> STD_TID[t] # None
            /\ ret'.hit <=> got[t].std # None
            /\ STD_TID'[t] = PlatformId(t)
            /\ \A u \in AllThreads \ {t} : STD_TID'[u] = STD_TID[u]
            /\ UNCHANGED <<LiveState, UniqueState, pc>>
      ]_vars

\* a thread reads its platform id from its slot while another thread, whose
\* slot holds a different id, is inside the allocator's critical section
C14_Witness ==
    /\ ret.kind = "ok" /\ ret.strat = "std" /\ ret.hit
    /\ ret.val = PlatformId(ret.thread)
    /\ \E u \in Threads \ {ret.thread} :
         /\ STD_TID[u] = PlatformId(u)
         /\ lockHolder = u

(* ------------------------------- C15 ----------------------------------- *)
\* C15: with free_list empty, alloc takes the current next_id; advancing
\* next_id succeeds, by exactly one, whenever next_id + 1 still fits the
\* machine word, and the call then returns the taken value; the call
\* panics only when next_id + 1 overflows the word, so that every value
\* below the sentinel usize::MAX is issued as a fresh id.
C15_FreshBoundary ==
    [][\A t \in Threads :
         /\ (pc[t] = "take" /\ pc'[t] # pc[t] /\ Len(free_list) = 0)
              => /\ pc'[t] = "advance"
                 /\ new_id'[t] = next_id'
                 /\ next_id' = lazy_init(ALLOCATOR).next_id
         /\ (pc[t] = "advance" /\ pc'[t] # pc[t])
              => IF next_id + 1 <= USIZE_MAX
                 THEN /\ next_id' = next_id + 1
                      /\ pc'[t] = "install"
                      /\ new_id'[t] = next_id
                      /\ new_id'[t] < USIZE_MAX
                 ELSE ret' = Panic(t, "live",
                                   "LiveThreadId overflowed a usize")
      ]_vars

(* ------------------------------- C16 ----------------------------------- *)
\* the step installs thread t's release hook
InstallsHook(t) == GUARD[t] = None /\ GUARD'[t] # None

\* the step stores a value in thread t's live cache slot
StoresLive(t) == LIVE_ID[t] = None /\ LIVE_ID'[t] # None

\* C16 as claimed: on a first call the allocator lock is released after the
\* id is taken and before the release hook is installed and the value is
\* stored in the cache slot; the lock is not held while the hook is
\* installed.
C16_LockThenInstall ==
    [][\A t \in Threads :
         /\ InstallsHook(t) => lockHolder # t /\ lockHolder' # t
         /\ StoresLive(t) => lockHolder # t /\ lockHolder' # t
      ]_vars

\* C16 as amended: on a first call the release hook is installed, carrying
\* the id just taken, while the caller still holds the allocator lock; the
\* lock is released when alloc returns, after the hook is installed and
\* before the value is stored in the cache slot, and the store is made
\* without the lock.
C16_InstallThenUnlock ==
    [][\A t \in Threads :
         /\ InstallsHook(t)
              => /\ lockHolder = t /\ lockHolder' = t
                 /\ GUARD'[t] = new_id[t]
                 /\ LIVE_ID'[t] = None
         /\ (pc[t] = "unlock" /\ pc'[t] # pc[t])
              => /\ lockHolder = t /\ lockHolder' = 0
                 /\ GUARD[t] = new_id[t]
                 /\ LIVE_ID'[t] = None
         /\ StoresLive(t)
              => /\ lockHolder # t /\ lockHolder' # t
                 /\ GUARD[t] = LIVE_ID'[t]
                 /\ ret' = Ok(t, "live", LIVE_ID'[t], FALSE)
      ]_vars

\* the hook of a thread is installed and its cache slot still empty while
\* the thread holds the lock and another thread waits for it
C16_Witness ==
    \E t \in Threads :
        /\ pc[t] = "unlock"
        /\ lockHolder = t
        /\ GUARD[t] = new_id[t]
        /\ LIVE_ID[t] = None
        /\ \E u \in Threads \ {t} : pc[u] \in {"lock", "drop_lock"}

(* ------------------------------- C17 ----------------------------------- *)
\* the positions between taking the ALLOCATOR mutex and dropping its guard
Critical == {"take", "advance", "install", "unlock", "drop_push",
             "drop_unlock"}

\* the positions whose next step reads or writes next_id or free_list
Accessing == {"take", "advance", "drop_push"}

\* free_list is a well-formed binary heap with the smallest id at the root
HeapOk(data) == \A i \in 2..Len(data) : data[i \div 2] <= data[i]

\* C17: at most one thread is between locking and unlocking the ALLOCATOR
\* mutex, in alloc or in ThreadGuard::drop alike, and it is the holder of
\* the mutex; a step that reads or writes next_id or free_list is taken by
\* the holder; the allocator only changes in such a step; free_list is a
\* well-formed heap whenever a thread comes to read it.
C17_MutualExclusion ==
    [][/\ \A t1, t2 \in Threads :
            (pc'[t1] \in Critical /\ pc'[t2] \in Critical) => t1 = t2
       /\ \A t \in Threads : pc'[t] \in Critical <=> lockHolder' = t
       /\ \A t \in Threads :
            (pc[t] \in Accessing /\ pc'[t] # pc[t])
            => lockHolder = t /\ (lockHolder' = t \/ ret'.kind = "panic")
       /\ ALLOCATOR' # ALLOCATOR
            => \E t \in Threads :
                 pc[t] \in Accessing /\ pc'[t] # pc[t] /\ lockHolder = t
       /\ HeapOk(free_list')
      ]_vars

\* a release hook is about to push its id while a thread in alloc waits for
\* the same mutex
C17_Witness ==
    \E t, u \in Threads :
        /\ pc[t] = "drop_push"
        /\ lockHolder = t
        /\ pc[u] = "lock"

(* ------------------------------- C18 ----------------------------------- *)
\* C18: free_list grows only in the step of ThreadGuard::drop that pushes,
\* on a thread whose GUARD destructor is running, by exactly the id the
\* guard carries; a step of alloc leaves free_list unchanged or removes one
\* element; an id has been pushed at most as often as it was returned by
\* current(), and each thread pushes at most once.
C18_OnlyHookGrows ==
    [][/\ free_list' # free_list
            => \/ \E t \in Threads :
                    /\ pc[t] = "drop_push" /\ pc'[t] = "drop_unlock"
                    /\ guardState[t] = "Destroyed"
                    /\ GUARD[t] = got[t].live
                    /\ AddedOne(free_list, GUARD[t], free_list')
                    /\ released' = Append(released, GUARD[t])
               \/ \E t \in Threads :
                    /\ pc[t] = "take" /\ pc'[t] = "install"
                    /\ RemovedOne(free_list, new_id'[t], free_list')
                    /\ released' = released
       /\ \A t \in Threads :
            (pc[t] \in InAlloc /\ pc'[t] # pc[t])
            => Len(free_list') <= Len(free_list)
       /\ \A t \in Threads :
            (pc[t] = "drop_push" /\ pc'[t] # pc[t])
            => GUARD[t] \notin Range(free_list)
       /\ \A v \in 0..USIZE_MAX :
            Count(released', v)
              <= Cardinality({t \in Threads : got'[t].live = v})
       /\ Len(released')
            <= Cardinality({t \in Threads : guardState'[t] = "Destroyed"})
      ]_vars

\* an id that was issued twice has just been pushed for the second time
C18_Witness ==
    \E t \in Threads :
        /\ pc[t] = "drop_unlock"
        /\ Count(released, GUARD[t]) = 2
        /\ GUARD[t] \in Range(free_list)

(* ------------------------------- C19 ----------------------------------- *)
\* thread t's release hook has pushed the id the thread was issued
Released(t) ==
    /\ got[t].live # None
    /\ guardState[t] = "Destroyed"
    /\ pc[t] \notin {"drop_lock", "drop_push"}

\* the id is in free_list or held again by another live thread
FreeOrReissued(id) ==
    \/ id \in Range(free_list)
    \/ \E u \in Threads : Alive(u) /\ Holds(u) = id

\* C19: under fair scheduling, once the termination of a thread that was
\* issued a live id has begun, its release hook eventually pushes the id; a
\* thread that is gone has released its id; the id released is then in
\* free_list until it is reissued; the hook of a thread runs once (its
\* GUARD key stays destroyed and it pushes a single id).
C19_ReleaseGuaranteed ==
    /\ \A t \in Threads :
         (guardState[t] = "Destroyed" /\ got[t].live # None)
            ~> (Released(t) /\ FreeOrReissued(got[t].live))
    /\ [][\A t \in Threads :
            /\ guardState[t] = "Destroyed" => guardState'[t] = "Destroyed"
            /\ (pc'[t] = "dead" /\ got'[t].live # None) => Released(t)'
            /\ Released(t)' => FreeOrReissued(got[t].live)'
            /\ Released(t) => Released(t)'
         ]_vars
    /\ [](Len(released)
            = Cardinality({t \in Threads :
                             Released(t) \/ pc[t] = "drop_unlock"}))

\* two threads that held live ids are gone: the id of one is in free_list
\* and the id of the other is held again by a later thread
C19_Witness ==
    \E t1, t2, u \in Threads :
        /\ t1 # t2
        /\ pc[t1] = "dead" /\ pc[t2] = "dead"
        /\ got[t1].live # None /\ got[t2].live # None
        /\ got[t1].live # got[t2].live
        /\ got[t1].live \in Range(free_list)
        /\ LIVE_ID[u] = got[t2].live

(* ------------------------------- C20 ----------------------------------- *)
\* C20: a hook is installed only in an empty GUARD cell of a thread whose
\* GUARD key is not destroyed, an installed hook is never replaced, only
\* removed by the key's destructor, and a destroyed key stays destroyed, so
\* a thread installs at most one hook; a call to LiveThreadId::current()
\* on a thread whose hook is installed and whose cache slot is empty panics
\* with "already initialized" in its first step, without taking the lock
\* and without changing next_id, free_list, the hook or the cache slot;
\* that panic is never raised after the lock was taken.
C20_SingleHook ==
    [][\A t \in Threads :
         /\ InstallsHook(t)
              => /\ guardState[t] = "Alive" /\ guardState'[t] = "Alive"
                 /\ got[t].live = None
         /\ (GUARD[t] # None /\ GUARD'[t] # GUARD[t])
              => GUARD'[t] = None /\ guardState[t] = "Destroyed"
         /\ guardState[t] = "Destroyed" => guardState'[t] = "Destroyed"
         /\ (/\ pc[t] = "idle" /\ LIVE_ID[t] = None /\ GUARD[t] # None
             /\ guardState[t] # "Destroyed"
             /\ Completes(t, "live") \/ pc'[t] \in InAlloc \cup InDrop)
              => \/ /\ ret' = Panic(t, "live", "already initialized")
                    /\ pc'[t] = "idle"
                    /\ UNCHANGED <<ALLOCATOR, lockHolder, poisoned, GUARD,
                                   LIVE_ID, new_id, released>>
                 \/ /\ pc'[t] = "drop_lock"
                    /\ guardState'[t] = "Destroyed"
         /\ ret' = Panic(t, "live", "already initialized")
              => pc[t] = "idle" /\ lockHolder # t
         /\ pc'[t] # "stuck"
      ]_vars

\* the call has just failed on a thread whose hook is installed, while
\* another thread is inside the allocator's critical section
C20_Witness ==
    /\ ret.kind = "panic" /\ ret.strat = "live"
    /\ ret.msg = "already initialized"
    /\ GUARD[ret.thread] # None
    /\ LIVE_ID[ret.thread] = None
    /\ lockHolder # 0
    /\ pc[lockHolder] = "take"

(* ------------------------------- C21 ----------------------------------- *)
\* C21: from its first step to its last, ThreadGuard::drop runs with the
\* live cache slot of its thread empty, so the slot is cleared before the
\* lock is taken and the id pushed; no id in free_list is in the live cache
\* slot of any thread.
C21_ClearBeforeRelease ==
    /\ \A t \in AllThreads : pc[t] \in InDrop => LIVE_ID[t] = None
    /\ \A t \in AllThreads :
         LIVE_ID[t] # None => LIVE_ID[t] \notin Range(free_list)

\* the id a thread held is in free_list while the thread, its slot empty,
\* still runs, and another thread holds an id in its slot
C21_Witness ==
    \E t, u \in Threads :
        /\ t # u
        /\ pc[t] = "idle"
        /\ guardState[t] = "Destroyed"
        /\ got[t].live \in Range(free_list)
        /\ LIVE_ID[t] = None
        /\ LIVE_ID[u] # None

(* ------------------------------- C22 ----------------------------------- *)
\* C22: under fair scheduling a thread that is inside alloc or inside
\* ThreadGuard::drop eventually is outside both, the call having returned
\* or panicked or the teardown having finished, and then does not hold the
\* allocator lock; a thread that waits for the lock does not hold it, the
\* holder is always inside alloc or ThreadGuard::drop, so every holder
\* eventually releases, and no thread is blocked for ever on its own lock.
C22_NoDeadlock ==
    /\ \A t \in Threads :
         (pc[t] \in InAlloc \cup InDrop) ~> (pc[t] = "idle" /\ lockHolder # t)
    /\ [](\A t \in Threads :
            /\ pc[t] \in {"lock", "drop_lock"} => lockHolder # t
            /\ lockHolder = t => pc[t] \in Critical
            /\ pc[t] # "stuck")
    /\ [](lockHolder \in Threads \cup {0})

\* after a call has failed fatally under the lock, a thread in alloc waits
\* for the lock that a release hook holds
C22_Witness ==
    \E t, u \in Threads :
        /\ poisoned
        /\ pc[t] = "lock"
        /\ lockHolder = u
        /\ pc[u] \in {"drop_push", "drop_unlock"}

(* ------------------------------- C23 ----------------------------------- *)
\* the reuse allocator can issue no further id
LiveExhausted == Len(free_list) = 0 /\ next_id = USIZE_MAX - 1

\* C23: a thread that is not inside a call and whose cache slot for a
\* strategy is populated can always call current() for that strategy,
\* whoever holds the allocator lock and however far the counters have
\* advanced, and every such call returns the cached value; a call panics
\* only on a thread whose slot for the strategy was empty.
C23_InfallibleOnceCached ==
    [][\A t \in Threads :
         /\ (pc[t] = "idle" /\ LIVE_ID[t] # None)
              => /\ ENABLED LiveCurrent(t)
                 /\ Completes(t, "live")
                      => ret' = Ok(t, "live", LIVE_ID[t], TRUE)
         /\ (pc[t] = "idle" /\ THREAD_ID[t] # None)
              => /\ ENABLED UniqueCurrent(t)
                 /\ Completes(t, "unique")
                      => ret' = Ok(t, "unique", THREAD_ID[t], TRUE)
         /\ (pc[t] = "idle" /\ STD_TID[t] # None)
              => /\ ENABLED StdCurrent(t)
                 /\ Completes(t, "std")
                      => ret' = Ok(t, "std", STD_TID[t], TRUE)
         /\ (Completes(t, "live") /\ ret'.kind = "panic")
              => LIVE_ID[t] = None
         /\ (Completes(t, "unique") /\ ret'.kind = "panic")
              => THREAD_ID[t] = None
      ]_vars

\* a thread gets its cached live id back while the reuse allocator is
\* exhausted and another thread holds its lock, and the monotonic counter,
\* of which the thread holds an id, is exhausted too
C23_Witness ==
    /\ ret.kind = "ok" /\ ret.strat = "live" /\ ret.hit
    /\ LiveExhausted
    /\ lockHolder # 0 /\ lockHolder # ret.thread
    /\ NEXT_ID = U64_MAX
    /\ THREAD_ID[ret.thread] # None

(* ------------------------------- C24 ----------------------------------- *)
\* the step mints a monotonic id for thread t
Mints(t) == Completes(t, "unique") /\ ret'.kind = "ok" /\ ~ret'.hit

\* the monotonic ids handed out so far
Minted == {got[u].unique : u \in AllThreads} \ {None}

\* C24: the n-th mint of a monotonic id returns n, so the first returns 1,
\* zero is never returned, and an id minted is greater than every id
\* handed out before, in particular than the id of a thread whose mint
\* completed before this one began; the unwrap of the non-zero conversion
\* never fails; the counter is the number of mints plus one, changes only
\* in a mint, and is not lowered when a thread terminates.
C24_MonotonicSequence ==
    [][/\ \A t \in Threads :
            Mints(t)
            => /\ ret'.val = Cardinality(Minted) + 1
               /\ ret'.val >= 1
               /\ \A v \in Minted : v < ret'.val
               /\ NEXT_ID' = ret'.val + 1
               /\ prev[t] = NEXT_ID
       /\ (\A t \in Threads : ~Mints(t)) => NEXT_ID' = NEXT_ID
       /\ NEXT_ID' = Cardinality(Minted') + 1
       /\ \A t \in Threads :
            (pc[t] = "cas" /\ pc'[t] = "cas") => prev'[t] >= prev[t]
       /\ (ret'.strat = "unique" /\ ret'.kind = "panic")
            => ret'.msg = "id overflow" /\ NEXT_ID = U64_MAX
      ]_vars

\* a thread of the second scope mints the second id after the thread that
\* minted the first has terminated
C24_Witness ==
    \E t \in Scope2, u \in Scope1 :
        /\ ret = Ok(t, "unique", 2, FALSE)
        /\ got[u].unique = 1
        /\ pc[u] = "dead"
        /\ NEXT_ID = 3

(* ------------------------------- C25 ----------------------------------- *)
\* thread t is neither inside a first call nor inside its hook's teardown
Outside(t) == pc[t] \notin InAlloc \cup InDrop

\* C25: on a thread that is outside a first call and outside the teardown
\* of its hook, the live cache slot holds k exactly when the GUARD cell
\* holds a guard carrying k and the GUARD key is not destroyed; so no such
\* thread has an empty slot and an installed hook that has not run, no
\* call panics with "already initialized", and no thread is blocked on
\* the drop of a rejected guard.
C25_CacheHookAgree ==
    /\ \A t \in AllThreads :
         Outside(t)
         => /\ \A k \in 0..USIZE_MAX :
                 LIVE_ID[t] = k <=> (GUARD[t] = k /\ guardState[t] = "Alive")
            /\ ~(LIVE_ID[t] = None /\ GUARD[t] # None
                 /\ guardState[t] # "Destroyed")
    /\ ret.msg # "already initialized"
    /\ \A t \in AllThreads : pc[t] # "stuck"

\* one thread holds the same id in its slot and in its hook; another, whose
\* hook has run and whose slot and GUARD cell are empty, has just called
\* current() again and failed on the destroyed key
C25_Witness ==
    \E t, u \in Threads :
        /\ t # u
        /\ pc[t] = "idle" /\ pc[u] = "idle"
        /\ LIVE_ID[t] # None /\ GUARD[t] = LIVE_ID[t]
        /\ guardState[t] = "Alive"
        /\ got[u].live # None
        /\ LIVE_ID[u] = None /\ GUARD[u] = None
        /\ ret = Panic(u, "live", "thread already destroyed")

(* ------------------------------- C26 ----------------------------------- *)
\* the threads that have taken an id and not pushed it back yet
Holders == {t \in AllThreads : Alive(t) /\ Holds(t) # None}

\* C26: next_id is the number of threads that hold an id they have not
\* returned plus the size of free_list, in every state and so whenever the
\* lock is free; next_id grows only by one, only in an alloc that found
\* free_list empty, and right after it has grown to n exactly n ids are
\* held, and still are when the lock is released: never more than next_id
\* ids are held at once and next_id ids were held at once when it last
\* grew, so next_id is the largest number of ids ever held simultaneously.
C26_NextIdCountsPeak ==
    [][/\ next_id' = Cardinality(Holders') + Len(free_list')
       /\ lockHolder' = 0
            => /\ next_id' = Cardinality(Holders') + Len(free_list')
               /\ Cardinality(Holders') <= next_id'
       /\ next_id' # next_id
            => /\ next_id' = next_id + 1
               /\ Len(free_list) = 0 /\ Len(free_list') = 0
               /\ Cardinality(Holders') = next_id'
               /\ \E t \in Threads : pc[t] = "advance" /\ pc'[t] = "install"
       /\ \A t \in Threads :
            (pc[t] = "unlock" /\ pc'[t] = "store" /\ Len(free_list) = 0)
            => Cardinality(Holders') = next_id'
      ]_vars

\* with the lock free, fewer ids are held than next_id counts: next_id
\* grew while the main thread and two threads held ids, both threads
\* released them and a thread of the second scope holds one of the two
C26_Witness ==
    /\ lockHolder = 0
    /\ Len(released) = 2
    /\ Len(free_list) = 1
    /\ Cardinality(Holders) = 2
    /\ next_id = 3
    /\ \E t \in Scope2 : LIVE_ID[t] # None

====
